---- MODULE Spec2Model ----
(***************************************************************************)
(* hbconv: conversion of bank CSV exports (Postbank, Sparda) into the      *)
(* Homebank CSV format.                                                    *)
(*                                                                         *)
(* Text is modelled as a sequence of one-character strings, so that the    *)
(* splitting, parsing and formatting steps are computed the way the code   *)
(* computes them.  The input stream is a sequence of stream elements, one  *)
(* per line (the line terminator itself is not represented); an element    *)
(* can also be a failing read.                                             *)
(***************************************************************************)
EXTENDS Integers, Sequences, FiniteSets, TLC

(***************************************************************************)
(* Bounds of the model.                                                    *)
(***************************************************************************)
\* longest input stream, in stream elements (lines and failing reads)
MaxLines == 12

(***************************************************************************)
(* Text helpers.                                                           *)
(***************************************************************************)
Digits == <<"0", "1", "2", "3", "4", "5", "6", "7", "8", "9">>

IsDigit(c) == \E i \in 1..10 : Digits[i] = c

DigitVal(c) == (CHOOSE i \in 1..10 : Digits[i] = c) - 1

AllDigits(s) == \A i \in 1..Len(s) : IsDigit(s[i])

RECURSIVE DigitsToNat(_)
DigitsToNat(s) ==
    IF s = <<>> THEN 0
    ELSE 10 * DigitsToNat(SubSeq(s, 1, Len(s) - 1)) + DigitVal(s[Len(s)])

RECURSIVE NatToDigits(_)
NatToDigits(n) ==
    IF n < 10 THEN <<Digits[n + 1]>>
    ELSE NatToDigits(n \div 10) \o <<Digits[(n % 10) + 1]>>

RECURSIVE Pow10(_)
Pow10(k) == IF k = 0 THEN 1 ELSE 10 * Pow10(k - 1)

\* digits of n, left-padded with zeros to at least w characters
RECURSIVE ZeroPad(_, _)
ZeroPad(s, w) == IF Len(s) >= w THEN s ELSE ZeroPad(<<"0">> \o s, w)

Remove(s, c) == SelectSeq(s, LAMBDA x : x # c)

\* str::split: the pieces of s between occurrences of sep (always >= 1 piece)
RECURSIVE Split(_, _)
Split(s, sep) ==
    IF \A i \in 1..Len(s) : s[i] # sep THEN <<s>>
    ELSE LET k == CHOOSE i \in 1..Len(s) :
                      s[i] = sep /\ \A j \in 1..(i - 1) : s[j] # sep
         IN  <<SubSeq(s, 1, k - 1)>> \o Split(SubSeq(s, k + 1, Len(s)), sep)

RECURSIVE Join(_, _)
Join(parts, sep) ==
    IF parts = <<>> THEN <<>>
    ELSE IF Len(parts) = 1 THEN parts[1]
    ELSE parts[1] \o sep \o Join(Tail(parts), sep)

\* str::trim_matches(c): strip every leading and trailing c
RECURSIVE TrimMatches(_, _)
TrimMatches(s, c) ==
    IF s # <<>> /\ s[1] = c THEN TrimMatches(Tail(s), c)
    ELSE IF s # <<>> /\ s[Len(s)] = c THEN TrimMatches(SubSeq(s, 1, Len(s) - 1), c)
    ELSE s

\* i32::from_str: an optional sign followed by one or more decimal digits
I32FromStr(s) ==
    LET signed == s # <<>> /\ s[1] \in {"-", "+"}
        body   == IF signed THEN Tail(s) ELSE s
    IN  IF body = <<>> \/ ~AllDigits(body) THEN [ok |-> FALSE, val |-> 0]
        ELSE [ok |-> TRUE,
              val |-> IF signed /\ s[1] = "-" THEN 0 - DigitsToNat(body)
                      ELSE DigitsToNat(body)]

(***************************************************************************)
(* Calendar dates (chrono::NaiveDate).                                     *)
(***************************************************************************)
IsLeap(y) == (y % 4 = 0 /\ y % 100 # 0) \/ y % 400 = 0

DaysIn(y, m) ==
    IF m = 2 THEN (IF IsLeap(y) THEN 29 ELSE 28)
    ELSE IF m \in {4, 6, 9, 11} THEN 30 ELSE 31

NoDate == [ok |-> FALSE, y |-> 0, m |-> 0, d |-> 0]

\* a parsed (year, month, day) triple is a date only if it is on the calendar
MakeDate(y, m, d) ==
    IF m \in 1..12 /\ d >= 1 /\ d <= DaysIn(y, m)
    THEN [ok |-> TRUE, y |-> y, m |-> m, d |-> d]
    ELSE NoDate

\* a numeric date item of at most w digits
NumItem(s, w) == s # <<>> /\ Len(s) <= w /\ AllDigits(s)

\* NaiveDate::parse_from_str(text, "%d.%m.%Y")
ParseDateDMY(text) ==
    LET p == Split(text, ".")
    IN  IF Len(p) = 3 /\ NumItem(p[1], 2) /\ NumItem(p[2], 2) /\ NumItem(p[3], 4)
        THEN MakeDate(DigitsToNat(p[3]), DigitsToNat(p[2]), DigitsToNat(p[1]))
        ELSE NoDate

\* NaiveDate::parse_from_str(text, "%Y-%m-%d")
ParseDateYMD(text) ==
    LET p == Split(text, "-")
    IN  IF Len(p) = 3 /\ NumItem(p[1], 4) /\ NumItem(p[2], 2) /\ NumItem(p[3], 2)
        THEN MakeDate(DigitsToNat(p[1]), DigitsToNat(p[2]), DigitsToNat(p[3]))
        ELSE NoDate

\* NaiveDate::format("%Y-%m-%d").to_string()
FormatDateYMD(date) ==
    ZeroPad(NatToDigits(date.y), 4) \o <<"-">> \o ZeroPad(NatToDigits(date.m), 2)
        \o <<"-">> \o ZeroPad(NatToDigits(date.d), 2)

(***************************************************************************)
(* Monetary amounts.  An amount is a decimal number m / 10^scale.          *)
(***************************************************************************)
NoAmount == [ok |-> FALSE, m |-> 0, scale |-> 0]

Amount(m, scale) == [ok |-> TRUE, m |-> m, scale |-> scale]

Abs(n) == IF n < 0 THEN 0 - n ELSE n

\* rusty_money's EUR locale: "." separates digit groups, "," the exponent
EurDigitSeparator == "."

EurExponentSeparator == ","

\* the euro sign, one character, written here in ASCII
EurSymbol == "<euro>"

\* the number of minor-unit digits of EUR
EurExponent == 2

\* Money::from_str(text, EUR): the text is split at the exponent separator,
\* digit separators are removed from the integer part WHEREVER they stand,
\* and both parts must read as integers.  Without a fraction the amount gets
\* EurExponent zero digits.  (A fraction that carries a sign passes the
\* integer check and is rejected later; no input of the model has one, and
\* it is reported here as a parse error.)
MoneyFromStr(text) ==
    LET parts  == Split(text, EurExponentSeparator)
        intTxt == Remove(parts[1], EurDigitSeparator)
        int    == I32FromStr(intTxt)
        neg    == intTxt # <<>> /\ intTxt[1] = "-"
    IN  IF ~int.ok THEN NoAmount
        ELSE IF Len(parts) = 1
             THEN Amount(int.val * Pow10(EurExponent), EurExponent)
        ELSE IF Len(parts) = 2
             THEN IF parts[2] = <<>> \/ ~AllDigits(parts[2]) THEN NoAmount
                  ELSE LET k   == Len(parts[2])
                           mag == Abs(int.val) * Pow10(k) + DigitsToNat(parts[2])
                       IN  Amount(IF neg THEN 0 - mag ELSE mag, k)
        ELSE NoAmount

\* the decimal separator the Postbank adapter configures (set_decimal(","))
PostbankDecimal == ","

\* f64 text as left by the clean-up below: -?digits(.digits)?, given here with
\* the configured decimal separator still in place
IsPlainNumber(s) ==
    LET body  == IF s # <<>> /\ s[1] = "-" THEN Tail(s) ELSE s
        parts == Split(body, PostbankDecimal)
    IN  /\ Len(parts) \in {1, 2}
        /\ parts[1] # <<>> /\ AllDigits(parts[1])
        /\ Len(parts) = 2 => (parts[2] # <<>> /\ AllDigits(parts[2]))

\* currency_rs Currency::new_string(text, opts) with decimal ",", separator ""
\* and error_on_invalid left at its default (false): every character that is
\* neither a digit, "-" nor the decimal separator is dropped, the rest is read
\* as a number and rounded to cents; text that leaves no number reads as 0.
\* It never reports an error.  (The "(x)" notation for negatives is not
\* modelled; no input of the model uses it.)
CurrencyNewString(text) ==
    LET kept  == SelectSeq(text, LAMBDA c : IsDigit(c) \/ c \in {"-", PostbankDecimal})
        neg   == kept # <<>> /\ kept[1] = "-"
        body  == IF neg THEN Tail(kept) ELSE kept
        parts == Split(body, PostbankDecimal)
        frac  == IF Len(parts) = 2 THEN parts[2] ELSE <<>>
        f3    == SubSeq(frac \o <<"0", "0", "0">>, 1, 3)
        cents == DigitsToNat(parts[1]) * 100 + DigitsToNat(SubSeq(f3, 1, 2))
                     + (IF DigitVal(f3[3]) >= 5 THEN 1 ELSE 0)
    IN  IF ~IsPlainNumber(kept) THEN Amount(0, 2)
        ELSE Amount(IF neg THEN 0 - cents ELSE cents, 2)

\* Decimal::round_dp(2), midpoint to even; an amount of scale <= 2 is kept
RoundToExponent(a) ==
    IF a.scale <= EurExponent THEN a
    ELSE LET unit == Pow10(a.scale - EurExponent)
             q    == Abs(a.m) \div unit
             r    == Abs(a.m) % unit
             up   == 2 * r > unit \/ (2 * r = unit /\ q % 2 = 1)
             mag  == IF up THEN q + 1 ELSE q
         IN  Amount(IF a.m < 0 THEN 0 - mag ELSE mag, EurExponent)

\* digit groups of three from the right, separated by the digit separator
RECURSIVE GroupDigits(_)
GroupDigits(ds) ==
    IF Len(ds) <= 3 THEN ds
    ELSE GroupDigits(SubSeq(ds, 1, Len(ds) - 3)) \o <<EurDigitSeparator>>
             \o SubSeq(ds, Len(ds) - 2, Len(ds))

\* Display for Money<iso::Currency> (value.amount.to_string()) with EUR:
\* sign, then the currency symbol (EUR puts the symbol first), then the
\* amount rounded to the currency's exponent, its integer digits grouped.
MoneyToString(a) ==
    LET r    == RoundToExponent(a)
        unit == Pow10(r.scale)
        int  == NatToDigits(Abs(r.m) \div unit)
        frac == IF r.scale = 0
                THEN [i \in 1..EurExponent |-> "0"]
                ELSE ZeroPad(NatToDigits(Abs(r.m) % unit), r.scale)
    IN  (IF r.m < 0 THEN <<"-">> ELSE <<>>) \o <<EurSymbol>>
            \o GroupDigits(int) \o <<EurExponentSeparator>> \o frac

(***************************************************************************)
(* Input lines.  A stream holds lines named by LineIds; LineText gives the *)
(* characters of a line for the adapter that reads it.  "<FF>" stands for  *)
(* a byte that is not valid UTF-8; "ioerr" is a read that fails.           *)
(***************************************************************************)
T_7_3_2024    == <<"7", ".", "3", ".", "2", "0", "2", "4">>
T_8_3_2024    == <<"8", ".", "3", ".", "2", "0", "2", "4">>
T_2024_03_07  == <<"2", "0", "2", "4", "-", "0", "3", "-", "0", "7">>
T_2024_03_08  == <<"2", "0", "2", "4", "-", "0", "3", "-", "0", "8">>
T_SEPA        == <<"S", "E", "P", "A", " ", "L", "a", "s", "t", "s", "c", "h", "r", "i", "f", "t">>
T_Woopsie     == <<"W", "o", "o", "p", "s", "i", "e">>
T_Doopsie     == <<"D", "o", "o", "p", "s", "i", "e">>
T_DooFFpsie   == <<"D", "o", "o", "<FF>", "p", "s", "i", "e">>
T_Acme        == <<"A", "c", "m", "e">>
T_Lohn        == <<"L", "o", "h", "n">>
T_DE123       == <<"D", "E", "1", "2", "3">>
T_DE456       == <<"D", "E", "4", "5", "6">>
T_ABCD        == <<"A", "B", "C", "D">>
T_REF2        == <<"R", "E", "F", "2">>
T_EFG         == <<"E", "F", "G">>
T_EUR         == <<"E", "U", "R">>
T_abc         == <<"a", "b", "c">>
T_m25c88      == <<"-", "2", "5", ",", "8", "8">>
T_m25d88      == <<"-", "2", "5", ".", "8", "8">>
T_1000c00     == <<"1", "0", "0", "0", ",", "0", "0">>
T_q1000c00q   == <<"\"", "1", "0", "0", "0", ",", "0", "0", "\"">>
T_Boiler      == <<"U", "m", "s", "a", "t", "z", "a", "u", "s", "k", "u", "n", "f", "t">>
T_Empty       == <<>>

\* a Postbank export line of 18 columns: the test line of postbank.rs with
\* the date, name, purpose, reference and amount columns given
PostbankLine(date, name, zweck, ref, betrag) ==
    Join(<<date, date, T_SEPA, name, zweck, T_DE123, T_Empty, ref, T_EFG, T_DE123,
           T_Empty, betrag, T_Empty, T_Empty, T_Empty, betrag, T_Empty, T_EUR>>, <<";">>)

\* a Sparda export line of 7 columns
SpardaLine(date, iban, name, zweck, umsatz) ==
    Join(<<date, date, iban, name, zweck, umsatz, T_EUR>>, <<";">>)

LineIds ==
    {"good", "good2", "dot", "baddate", "badmoney", "badutf8", "boiler", "blank", "ioerr"}

LineText(fmt, id) ==
    IF id \in {"blank", "ioerr"} THEN T_Empty
    ELSE IF id = "boiler" THEN T_Boiler
    ELSE IF fmt = "Postbank" THEN
        CASE id = "good"     -> PostbankLine(T_7_3_2024, T_Woopsie, T_Doopsie, T_ABCD, T_m25c88)
          [] id = "good2"    -> PostbankLine(T_8_3_2024, T_Acme, T_Lohn, T_REF2, T_1000c00)
          [] id = "dot"      -> PostbankLine(T_7_3_2024, T_Woopsie, T_Doopsie, T_ABCD, T_m25d88)
          [] id = "baddate"  -> PostbankLine(T_2024_03_07, T_Woopsie, T_Doopsie, T_ABCD, T_m25c88)
          [] id = "badmoney" -> PostbankLine(T_7_3_2024, T_Woopsie, T_Doopsie, T_ABCD, T_abc)
          [] id = "badutf8"  -> PostbankLine(T_7_3_2024, T_Woopsie, T_DooFFpsie, T_ABCD, T_m25c88)
    ELSE
        CASE id = "good"     -> SpardaLine(T_2024_03_07, T_DE123, T_Woopsie, T_Doopsie, T_m25c88)
          [] id = "good2"    -> SpardaLine(T_2024_03_08, T_DE456, T_Acme, T_Lohn, T_q1000c00q)
          [] id = "dot"      -> SpardaLine(T_2024_03_07, T_DE123, T_Woopsie, T_Doopsie, T_m25d88)
          [] id = "baddate"  -> SpardaLine(T_7_3_2024, T_DE123, T_Woopsie, T_Doopsie, T_m25c88)
          [] id = "badmoney" -> SpardaLine(T_2024_03_07, T_DE123, T_Woopsie, T_Doopsie, T_abc)
          [] id = "badutf8"  -> SpardaLine(T_2024_03_07, T_DE123, T_Woopsie, T_DooFFpsie, T_m25c88)

\* a stream of n elements: h leading and t trailing boilerplate lines around
\* well-formed data lines
Layout(n, h, t) ==
    [k \in 1..n |-> IF k <= h \/ k > n - t THEN "boiler" ELSE "good"]

\* the input streams of the model: every layout, as it is or with any one
\* element replaced by any line (or failing read)
Inputs ==
    { [k \in 1..n |-> IF k = i THEN a ELSE Layout(n, h, t)[k]] :
          n \in 0..MaxLines, h \in 0..MaxLines, t \in 0..1, i \in 0..MaxLines, a \in LineIds }

(***************************************************************************)
(* Canonical record and its serialization (homebank.rs).                   *)
(***************************************************************************)
Payments ==
    <<"None", "CreditCard", "Check", "Cash", "BankTransfer", "InternalTransfer", "DebitCard",
      "StandingOrder", "ElectronicPayment", "Deposit", "FinancialInstitutionFee", "DirectDebit">>

\* `value.payment as u8`: the discriminant of the variant
PaymentCode(p) == (CHOOSE i \in 1..Len(Payments) : Payments[i] = p) - 1

Record(date, payment, info, payee, memo, amount, category, tags) ==
    [date |-> date, payment |-> payment, info |-> info, payee |-> payee, memo |-> memo,
     amount |-> amount, category |-> category, tags |-> tags]

NoRecord == Record(NoDate, "None", <<>>, <<>>, <<>>, NoAmount, <<>>, <<>>)

\* RecordIR::from(record): the eight text fields in the order of the struct
RecordIRFrom(value) ==
    << FormatDateYMD(value.date),
       NatToDigits(PaymentCode(value.payment)),
       value.info,
       value.payee,
       value.memo,
       MoneyToString(value.amount),
       value.category,
       Join(value.tags, <<" ">>) >>

\* csv::Writer, QuoteStyle::Necessary: a field holding the delimiter, a quote
\* or a line break is quoted, with its quotes doubled
NeedsQuotes(f) == \E i \in 1..Len(f) : f[i] \in {";", "\"", "\n", "\r"}

RECURSIVE DoubleQuotes(_)
DoubleQuotes(f) ==
    IF f = <<>> THEN <<>>
    ELSE (IF f[1] = "\"" THEN <<"\"", "\"">> ELSE <<f[1]>>) \o DoubleQuotes(Tail(f))

WriteField(f) ==
    IF NeedsQuotes(f) THEN <<"\"">> \o DoubleQuotes(f) \o <<"\"">> ELSE f

\* writer.serialize(ir) with delimiter ';' and no header: one terminated line
Serialize(ir) ==
    Join([i \in 1..Len(ir) |-> WriteField(ir[i])], <<";">>) \o <<"\n">>

\* the bytes Record::write hands to the writer
RecordLine(rec) == Serialize(RecordIRFrom(rec))

(***************************************************************************)
(* Program state.                                                          *)
(***************************************************************************)
VARIABLES
    format,   \* args.format: "Postbank" or "Sparda"
    input,    \* the input file, one element per line or failing read
    pos,      \* index of the next unread element of input
    skip_n,   \* the count left in the Skip adapter of TeoIter
    pc,       \* where main is: "start", "next" (the loop asks for an item),
              \* "body" (the loop body), "flush", "done", "failed", "panicked"
    record,   \* the loop variable: the item the adapter yielded last
    items,    \* the items the adapter has yielded so far, in order
    buf,      \* lines serialized into the csv writer and not yet written out
    file,     \* lines written to the output file
    writes    \* the outcome of every call of Record::write, in order

vars == <<format, input, pos, skip_n, pc, record, items, buf, file, writes>>

(***************************************************************************)
(* Rows: deserialization and semantic parsing.                             *)
(***************************************************************************)
Ok(rec)  == [ok |-> TRUE, err |-> "", rec |-> rec]

Err(why) == [ok |-> FALSE, err |-> why, rec |-> NoRecord]

\* number of fields of PostbankIR / SpardaIR
PostbankColumns == 18

SpardaColumns == 7

IsUtf8(col) == \A i \in 1..Len(col) : col[i] # "<FF>"

\* WINDOWS_1252 decoding (DecodeReaderBytes): every byte has a character, so
\* decoding never fails; the byte "<FF>" is y with diaeresis, U+00FF
Decode1252(line) == [i \in 1..Len(line) |-> IF line[i] = "<FF>" THEN "<U+00FF>" ELSE line[i]]

\* the csv reader's record of a line: delimiter ';', quoting off
Columns(line) == Split(line, ";")

\* serde deserialization of a headerless record into a struct of n Strings:
\* it fails on a record with fewer than n fields or a field that is not UTF-8
Deserializes(cols, n) ==
    Len(cols) >= n /\ \A i \in 1..n : IsUtf8(cols[i])

\* Record::from(Postbank::try_from(ir)?) for the columns of one line
PostbankTryFrom(cols) ==
    LET buchungstag == ParseDateDMY(cols[1])
        wert        == ParseDateDMY(cols[2])
        betrag      == CurrencyNewString(cols[12])
        waehrung    == CurrencyNewString(cols[18])
    IN  IF ~buchungstag.ok \/ ~wert.ok THEN Err("date")
        ELSE IF ~betrag.ok \/ ~waehrung.ok THEN Err("currency")
        ELSE Ok(Record(buchungstag, "ElectronicPayment", cols[8], cols[4], cols[5],
                       betrag, <<>>, <<>>))

\* Record::from(Sparda::try_from(ir)?) for the columns of one line
SpardaTryFrom(cols) ==
    LET buchungstag      == ParseDateYMD(cols[1])
        wertstellungstag == ParseDateYMD(cols[2])
        umsatz           == MoneyFromStr(TrimMatches(cols[6], "\""))
    IN  IF ~buchungstag.ok \/ ~wertstellungstag.ok THEN Err("date")
        ELSE IF ~umsatz.ok THEN Err("currency")
        ELSE Ok(Record(buchungstag, "ElectronicPayment", cols[3], cols[4], cols[5],
                       umsatz, <<>>, <<>>))

\* what the adapter makes of one non-blank line
RowResult(fmt, id) ==
    IF fmt = "Postbank"
    THEN LET cols == Columns(LineText(fmt, id))
         IN  IF Deserializes(cols, PostbankColumns) THEN PostbankTryFrom(cols)
             ELSE Err("deserialize")
    ELSE LET cols == Columns(Decode1252(LineText(fmt, id)))
         IN  IF Deserializes(cols, SpardaColumns) THEN SpardaTryFrom(cols)
             ELSE Err("deserialize")

Formats == {"Postbank", "Sparda"}

\* RowResult and the blank test for every line of the model, computed once
Rows ==
    [fmt \in Formats |->
        [id \in LineIds |-> [blank |-> LineText(fmt, id) = <<>>, res |-> RowResult(fmt, id)]]]

(***************************************************************************)
(* The adapters' iterators.                                                *)
(***************************************************************************)
None(p) == [some |-> FALSE, line |-> 0, res |-> Err(""), pos |-> p]

Some(line, res, p) == [some |-> TRUE, line |-> line, res |-> res, pos |-> p]

\* DeserializeRecordsIntoIter::next from element p on: the csv reader passes
\* over blank lines, reports a failed read as an item and ends at the end of
\* the stream; any other line is one record
RECURSIVE CsvNext(_, _)
RowNext(fmt, p, row) ==
    IF row.blank THEN CsvNext(fmt, p + 1) ELSE Some(p, row.res, p + 1)

CsvNext(fmt, p) ==
    IF p > Len(input) THEN None(p)
    ELSE IF input[p] = "ioerr" THEN Some(p, Err("io"), p + 1)
    ELSE RowNext(fmt, p, Rows[fmt][input[p]])

\* Iterator::nth(n): n items are taken and dropped, the next one is returned
RECURSIVE Nth(_, _, _)
NthFrom(fmt, r, n) ==
    IF ~r.some \/ n = 0 THEN r ELSE Nth(fmt, r.pos, n - 1)

Nth(fmt, p, n) == NthFrom(fmt, CsvNext(fmt, p), n)

\* Skip::next: the first call drops skip_n items, later calls drop none
SkipNext(fmt, p, n) == IF n > 0 THEN Nth(fmt, p, n) ELSE CsvNext(fmt, p)

\* a read that reported the end of the stream as an error (as read_exact does)
ReadUntilEofFails(p) ==
    IF p > Len(input) \/ input[p] = "ioerr" THEN [ok |-> FALSE, pos |-> p]
    ELSE [ok |-> TRUE, pos |-> p + 1]

\* BufRead::read_until(b'\n') at element p: a line is consumed, the end of the
\* stream reads as zero bytes without an error, a failed read is an error
ReadUntil(p) ==
    IF p > Len(input) THEN [ok |-> TRUE, pos |-> p]
    ELSE IF input[p] = "ioerr" THEN [ok |-> FALSE, pos |-> p + 1]
    ELSE [ok |-> TRUE, pos |-> p + 1]

\* the number of iterations of `for _i in 0..=7`
PostbankSkipReads == 8

\* the lines the Sparda adapter skips: deser.skip(10)
SpardaSkip == 10

\* the loop of PostbankIter::new: k times read_until(..).expect("Bum")
RECURSIVE SkipLines(_, _)
SkipLines(p, k) ==
    IF k = 0 THEN [ok |-> TRUE, pos |-> p]
    ELSE LET r == ReadUntil(p)
         IN  IF ~r.ok THEN r ELSE SkipLines(r.pos, k - 1)

\* PostbankIter::new
PostbankIterNew == SkipLines(1, PostbankSkipReads)

\* the adapter's next() in the current state
AdapterNext ==
    IF format = "Postbank" THEN CsvNext(format, pos)
    ELSE SkipNext(format, pos, skip_n)

Item(r) == [ok |-> r.res.ok, err |-> r.res.err, rec |-> r.res.rec, line |-> r.line]

NoItem == [ok |-> FALSE, err |-> "", rec |-> NoRecord, line |-> 0]

(***************************************************************************)
(* main.                                                                   *)
(***************************************************************************)
Init ==
    /\ format \in Formats
    /\ input \in Inputs
    /\ pos = 1
    /\ skip_n = 0
    /\ pc = "start"
    /\ record = NoItem
    /\ items = <<>>
    /\ buf = <<>>
    /\ file = <<>>
    /\ writes = <<>>

\* Format::open_input, Postbank: the constructor reads the leading lines
OpenPostbank ==
    /\ pc = "start" /\ format = "Postbank"
    /\ PostbankIterNew.ok
    /\ pos' = PostbankIterNew.pos
    /\ pc' = "next"
    /\ UNCHANGED <<format, input, skip_n, record, items, buf, file, writes>>

\* Format::open_input, Postbank: a read fails in the constructor, expect panics
OpenPostbankPanic ==
    /\ pc = "start" /\ format = "Postbank"
    /\ ~PostbankIterNew.ok
    /\ pos' = PostbankIterNew.pos
    /\ pc' = "panicked"
    /\ UNCHANGED <<format, input, skip_n, record, items, buf, file, writes>>

\* Format::open_input, Sparda: the constructor reads nothing
OpenSparda ==
    /\ pc = "start" /\ format = "Sparda"
    /\ skip_n' = SpardaSkip
    /\ pc' = "next"
    /\ UNCHANGED <<format, input, pos, record, items, buf, file, writes>>

\* `for record in input`: RecordIterator::next hands on the adapter's next();
\* an item enters the loop body, None leaves the loop
LoopNext ==
    LET r == AdapterNext
    IN  /\ pc = "next"
        /\ pos' = r.pos
        /\ skip_n' = 0
        /\ IF r.some
           THEN /\ record' = Item(r)
                /\ items' = Append(items, record')
                /\ pc' = "body"
           ELSE /\ pc' = "flush"
                /\ UNCHANGED <<record, items>>
        /\ UNCHANGED <<format, input, buf, file, writes>>

\* a main that left the loop at the first error item
AfterItemErrorBreak == "flush"

\* what main does with an error item after printing it: `continue`
AfterItemError == "next"

\* the loop body, the item is an error: it is printed and the loop continues
LoopErr ==
    /\ pc = "body"
    /\ ~record.ok
    /\ pc' = AfterItemError
    /\ UNCHANGED <<format, input, pos, skip_n, record, items, buf, file, writes>>

\* the loop body, the item is a record: the writer takes its line into its
\* buffer
LoopWrite ==
    /\ pc = "body"
    /\ record.ok
    /\ buf' = Append(buf, RecordLine(record.rec))
    /\ writes' = Append(writes, TRUE)
    /\ pc' = "next"
    /\ UNCHANGED <<format, input, pos, skip_n, record, items, file>>

\* the loop body, the item is a record and the writer's buffer is full: it is
\* written out first, successfully
LoopWriteFlush ==
    /\ pc = "body"
    /\ record.ok
    /\ buf # <<>>
    /\ file' = file \o buf
    /\ buf' = <<RecordLine(record.rec)>>
    /\ writes' = Append(writes, TRUE)
    /\ pc' = "next"
    /\ UNCHANGED <<format, input, pos, skip_n, record, items>>

\* a main that carried on with the next row after a failed write
AfterWriteErrorContinue == "next"

\* what main does after a failed Record::write: `?` returns the error
AfterWriteError == "failed"

\* the loop body, the item is a record and writing out the full buffer fails:
\* Record::write returns the error.  When main returns, the writer is dropped
\* and tries once more to write its buffer out, ignoring the outcome.
LoopWriteFail ==
    /\ pc = "body"
    /\ record.ok
    /\ buf # <<>>
    /\ writes' = Append(writes, FALSE)
    /\ pc' = AfterWriteError
    /\ \E dropFlushed \in BOOLEAN :
          IF dropFlushed
          THEN file' = file \o buf /\ buf' = <<>>
          ELSE UNCHANGED <<file, buf>>
    /\ UNCHANGED <<format, input, pos, skip_n, record, items>>

\* after the loop, output.flush() succeeds
Finish ==
    /\ pc = "flush"
    /\ file' = file \o buf
    /\ buf' = <<>>
    /\ pc' = "done"
    /\ UNCHANGED <<format, input, pos, skip_n, record, items, writes>>

\* after the loop, output.flush() fails
FinishFail ==
    /\ pc = "flush"
    /\ buf # <<>>
    /\ pc' = "failed"
    /\ UNCHANGED <<format, input, pos, skip_n, record, items, buf, file, writes>>

Next ==
    \/ OpenPostbank
    \/ OpenPostbankPanic
    \/ OpenSparda
    \/ LoopNext
    \/ LoopErr
    \/ LoopWrite
    \/ LoopWriteFlush
    \/ LoopWriteFail
    \/ Finish
    \/ FinishFail

Spec == Init /\ [][Next]_vars

(***************************************************************************)
(* Vocabulary of the properties.                                           *)
(***************************************************************************)
\* no read of the input fails
NoIoError == \A k \in 1..Len(input) : input[k] # "ioerr"

NoBlankLine == \A k \in 1..Len(input) : input[k] # "blank"

\* the adapter has been run to its end and main has not failed
Completed == pc \in {"flush", "done"}

\* the leading and trailing lines the specification says an adapter discards
SpecSkipHead(fmt) == IF fmt = "Postbank" THEN 7 ELSE 10

SpecSkipTail(fmt) == IF fmt = "Postbank" THEN 1 ELSE 0

\* the input positions of the yielded items, in order
YieldedLines == [k \in 1..Len(items) |-> items[k].line]

\* the positions from..to, in order
Range(from, to) == [k \in 1..(IF to >= from THEN to - from + 1 ELSE 0) |-> from + k - 1]

WellFormed == {"good", "good2"}

\* lines with bad date text, unparseable monetary text or bytes the adapter's
\* encoding cannot decode (WINDOWS_1252 decodes every byte)
Malformed(fmt) ==
    IF fmt = "Postbank" THEN {"baddate", "badmoney", "badutf8"} ELSE {"baddate", "badmoney"}

OkItems(its) == SelectSeq(its, LAMBDA it : it.ok)

\* the output lines of the records among the items, in order
OkLines(its) == [k \in 1..Len(OkItems(its)) |-> RecordLine(OkItems(its)[k].rec)]

March7 == [ok |-> TRUE, y |-> 2024, m |-> 3, d |-> 7]

\* the Postbank scenario: 7 boilerplate lines, the data line, a trailing line
ScenarioInput ==
    <<"boiler", "boiler", "boiler", "boiler", "boiler", "boiler", "boiler", "good", "boiler">>

(***************************************************************************)
(* C1.  PostbankIter discards exactly the first 7 lines and the final line *)
(* of its input and yields one item for every line in between, in order;   *)
(* on the scenario input it yields exactly one record, dated 2024-03-07,   *)
(* payee "Woopsie", memo "Doopsie", amount -25.88.                         *)
(***************************************************************************)
C1_PostbankSkipsSevenAndLast ==
    (format = "Postbank" /\ Completed /\ NoIoError) =>
        /\ YieldedLines = Range(SpecSkipHead(format) + 1, Len(input) - SpecSkipTail(format))
        /\ input = ScenarioInput =>
              /\ Len(items) = 1
              /\ items[1].ok
              /\ items[1].rec.date = March7
              /\ items[1].rec.payee = T_Woopsie
              /\ items[1].rec.memo = T_Doopsie
              /\ items[1].rec.amount = Amount(-2588, 2)

(***************************************************************************)
(* C2.  TeoIter (Sparda) discards exactly the first 10 lines of its input, *)
(* whatever their content, discards no trailing line, and yields one item  *)
(* for every line from the 11th to the last, in order.                     *)
(***************************************************************************)
C2_SpardaSkipsTenLines ==
    (format = "Sparda" /\ Completed /\ NoIoError) =>
        YieldedLines = Range(SpecSkipHead(format) + 1, Len(input))

(***************************************************************************)
(* C3.  For each adapter and every input of N lines, N at least skip-head  *)
(* plus skip-tail, whose non-skipped lines are all well-formed data lines, *)
(* the number of Ok items equals N - skip-head - skip-tail, with (7, 1)    *)
(* for Postbank and (10, 0) for Sparda.                                    *)
(***************************************************************************)
C3_OkCount ==
    LET head == SpecSkipHead(format)
        tail == SpecSkipTail(format)
        N    == Len(input)
    IN  ( /\ Completed /\ NoIoError
          /\ N >= head + tail
          /\ \A k \in (head + 1)..(N - tail) : input[k] \in WellFormed )
        => Len(OkItems(items)) = N - head - tail

(***************************************************************************)
(* C4.  For both adapters the sequence has exactly one item per            *)
(* non-skipped row; a malformed row at position i of the non-skipped rows  *)
(* is an Err item at position i, and a well-formed row is an Ok item at    *)
(* its position, also after a malformed one.                               *)
(***************************************************************************)
C4_ErrorAtItsPosition ==
    LET head == SpecSkipHead(format)
        tail == SpecSkipTail(format)
        N    == Len(input)
    IN  (Completed /\ NoIoError /\ NoBlankLine /\ N >= head + tail) =>
            /\ Len(items) = N - head - tail
            /\ \A i \in 1..(N - head - tail) :
                  /\ input[head + i] \in Malformed(format) => ~items[i].ok
                  /\ input[head + i] \in WellFormed => items[i].ok

(***************************************************************************)
(* C5.  For both adapters a data row whose monetary column has a dot where *)
(* the adapter expects a comma is a currency-parse error item, never an Ok *)
(* row with some amount.                                                   *)
(***************************************************************************)
C5_DotIsCurrencyError ==
    \A k \in 1..Len(items) :
        ( /\ input[items[k].line] = "dot"
          /\ items[k].line > SpecSkipHead(format)
          /\ items[k].line <= Len(input) - SpecSkipTail(format) )
        => (~items[k].ok /\ items[k].err = "currency")

(***************************************************************************)
(* C6.  For both adapters an input with fewer lines than the skip-head     *)
(* count (the empty input too) yields an empty sequence: construction does *)
(* not panic and the first call of next returns None, with no Err item.    *)
(***************************************************************************)
C6_ShortInputIsEmpty ==
    (NoIoError /\ Len(input) < SpecSkipHead(format)) =>
        /\ pc \in {"start", "next", "flush", "done"}
        /\ items = <<>>
        /\ file = <<>> /\ buf = <<>>

C6_Witness ==
    /\ NoIoError /\ NoBlankLine
    /\ format = "Postbank"
    /\ Len(input) = SpecSkipHead(format) - 1
    /\ pc = "done"

(***************************************************************************)
(* C7.  In a run without a write failure the output lines are exactly the  *)
(* Ok items of the adapter sequence, one line per Ok item, in the order    *)
(* the adapter yielded them; an Err item produces no line and does not     *)
(* stop the loop (the loop ends only when the adapter is exhausted).       *)
(***************************************************************************)
C7_OutputIsOkItemsInOrder ==
    /\ pc \in {"next", "flush"} => file \o buf = OkLines(items)
    /\ pc \in {"flush", "done"} => ~AdapterNext.some
    /\ pc = "done" => file = OkLines(items)

C7_Witness ==
    /\ pc = "done"
    /\ Len(items) = 3
    /\ items[1].ok /\ ~items[2].ok /\ items[3].ok
    /\ Len(file) = 2

(***************************************************************************)
(* C8.  Writing a record emits exactly one line of 8 ";"-separated fields: *)
(* date as YYYY-MM-DD, the payment code, info, payee, memo, the amount     *)
(* with a decimal comma and no currency symbol or code, category, tags.    *)
(***************************************************************************)
\* the amount text the claim describes: sign, digits, comma, two digits
PlainAmountText(a) ==
    (IF a.m < 0 THEN <<"-">> ELSE <<>>) \o NatToDigits(Abs(a.m) \div 100) \o <<",">>
        \o ZeroPad(NatToDigits(Abs(a.m) % 100), 2)

ClaimedLine(rec) ==
    Join(<<FormatDateYMD(rec.date), NatToDigits(PaymentCode(rec.payment)), rec.info,
           rec.payee, rec.memo, PlainAmountText(rec.amount), rec.category,
           Join(rec.tags, <<" ">>)>>, <<";">>) \o <<"\n">>

C8_LineLayout ==
    pc \in {"next", "flush", "done"} =>
        file \o buf = [k \in 1..Len(OkItems(items)) |-> ClaimedLine(OkItems(items)[k].rec)]

(***************************************************************************)
(* C9.  When writing a record fails, the error ends the run: no write is   *)
(* attempted for any later row, the failing record is not retried, and the *)
(* lines of the earlier records stay in the output.                        *)
(***************************************************************************)
C9_WriteErrorEndsRun ==
    /\ \A k \in 1..(Len(writes) - 1) : writes[k]
    /\ (writes # <<>> /\ ~writes[Len(writes)]) =>
          /\ pc = "failed"
          /\ Len(writes) = Len(OkItems(items))
          /\ file \o buf = SubSeq(OkLines(items), 1, Len(writes) - 1)

C9_Witness ==
    /\ pc = "failed"
    /\ Len(writes) = 3 /\ ~writes[3]
    /\ Len(file) = 2

(***************************************************************************)
(* C10.  A read error on the input at any point while an adapter consumes  *)
(* it, also while the leading lines are discarded, is yielded as an Err    *)
(* item of the sequence; it never panics the adapter or the iteration.     *)
(***************************************************************************)
C10_ReadErrorIsItem ==
    /\ pc # "panicked"
    /\ Completed =>
          \A p \in 1..Len(input) :
              input[p] = "ioerr" =>
                  \E k \in 1..Len(items) :
                      items[k].line = p /\ ~items[k].ok /\ items[k].err = "io"

====
